---- MODULE Spec2Model ----
(***************************************************************************)
(* nchip8: the cpu_daemon (command queue, worker thread, run state) and    *)
(* the cpu it owns.  cpu_daemon.cpp and the two headers are modelled from  *)
(* the source; cpu.cpp and cpu_message.hpp are not part of the source tree *)
(* at hand, so the bodies of cpu::reset, cpu::load_rom,                    *)
(* cpu::execute_op_at_pc, cpu::get_op_handler_for_instruction and          *)
(* cpu::dasm_op and the message structure follow the written               *)
(* specification of the machine (sections 3, 4, 6 and 7).                  *)
(***************************************************************************)
EXTENDS Integers, Sequences, FiniteSets, TLC

\* ------------------------------------------------------------------ bounds

\* How many send_message calls the caller makes in one run.
MaxSends == 3

\* How many direct calls into the cpu one run of CpuSpec makes.
MaxCpuCalls == 3

\* How many handlers are registered from outside the daemon in one run of RegSpec.
MaxRegs == 2

\* ------------------------------------------------------- program constants

\* std::array<std::uint8_t, 0x1000> m_ram
RamSize == 4096

\* std::array<std::uint16_t, 16> m_stack
StackSize == 16

\* m_cpu.load_rom(msg.m_data, 0x200)
HandlerLoadAddress == 512

\* reset() puts the program counter at 0x200
ResetPc == 512

\* std::nullopt, the key of an operand nibble in m_op_tree
NullOpt == -1

\* the standard (64x32) screen mode DRW wraps in
ScreenW == 64

ScreenH == 32

\* std::this_thread::sleep_for(std::chrono::milliseconds(250))
SleepMs == 250

\* std::size_t m_clock_speed = 500, the cycles a second; nothing assigns it again
m_clock_speed == 500

\* ------------------------------------------------------------ machine state

\* m_ram holds 0x1000 bytes; the model keeps the non-zero ones (address -> byte).
RamAt(ram, a) == IF a \in DOMAIN ram THEN ram[a] ELSE 0

\* std::vector<std::uint8_t> as [head: the leading bytes, size: the length];
\* the bytes after head are zero.
RomByte(rom, k) == IF k < Len(rom.head) THEN rom.head[k + 1] ELSE 0

\* cpu::reset: clears RAM, registers, the stack, the screen; pc = 0x200, sp = 0
reset(c) ==
    [ram    |-> [a \in {} |-> 0],
     gpr    |-> [r \in 0..15 |-> 0],
     i      |-> 0,
     pc     |-> ResetPc,
     sp     |-> 0,
     stack  |-> [s \in 0..(StackSize - 1) |-> 0],
     screen |-> {}]

\* The test off by one: a rom ending at the last byte of memory is refused.
RomFits_Strict(rom, address) == rom.size + address < RamSize

\* cpu::load_rom's test: the rom fits in memory from the address
RomFits(rom, address) == rom.size + address <= RamSize

\* cpu::load_rom: [ok, cpu]; the bytes are written in place when they fit,
\* and nothing is written when they do not.
load_rom(c, rom, address) ==
    IF RomFits(rom, address)
    THEN LET written == address..(address + rom.size - 1)
             nonzero == {a \in written : RomByte(rom, a - address) # 0}
             kept    == DOMAIN c.ram \ written
         IN  [ok  |-> TRUE,
              cpu |-> [c EXCEPT !.ram =
                         [a \in kept \cup nonzero |->
                            IF a \in nonzero THEN RomByte(rom, a - address)
                                             ELSE c.ram[a]]]]
    ELSE [ok |-> FALSE, cpu |-> c]

\* cpu::read_u16: the big-endian 16-bit value at the address
read_u16(c, address) == RamAt(c.ram, address) * 256 + RamAt(c.ram, address + 1)

\* ------------------------------------------------------------ opcode dispatch

\* The instruction's four nibbles, most significant first.
Nibbles(instr) ==
    << (instr \div 4096) % 16, (instr \div 256) % 16, (instr \div 16) % 16, instr % 16 >>

\* struct operand_data
operand_data(instr) ==
    [m_nnn |-> instr % 4096,
     m_x   |-> (instr \div 256) % 16,
     m_y   |-> (instr \div 16) % 16,
     m_kk  |-> instr % 256,
     m_n   |-> instr % 16]

\* The op_handler objects and their m_encoding (cpu.hpp, "Begin operation handlers").
OpEncoding ==
    [CLS         |-> <<0, 0, 14, 0>>,
     RET         |-> <<0, 0, 14, 14>>,
     SYS         |-> <<0, NullOpt, NullOpt, NullOpt>>,
     JP          |-> <<1, NullOpt, NullOpt, NullOpt>>,
     CALL        |-> <<2, NullOpt, NullOpt, NullOpt>>,
     SE_VX_KK    |-> <<3, NullOpt, NullOpt, NullOpt>>,
     SNE_VX_KK   |-> <<4, NullOpt, NullOpt, NullOpt>>,
     SE_VX_VY    |-> <<5, NullOpt, NullOpt, 0>>,
     LD_VX_KK    |-> <<6, NullOpt, NullOpt, NullOpt>>,
     ADD_VX_KK   |-> <<7, NullOpt, NullOpt, NullOpt>>,
     LD_VX_VY    |-> <<8, NullOpt, NullOpt, 0>>,
     OR_VX_Y     |-> <<8, NullOpt, NullOpt, 1>>,
     AND_VX_VY   |-> <<8, NullOpt, NullOpt, 2>>,
     XOR_VX_VY   |-> <<8, NullOpt, NullOpt, 3>>,
     ADD_VX_VY   |-> <<8, NullOpt, NullOpt, 4>>,
     SUB_VX_VY   |-> <<8, NullOpt, NullOpt, 5>>,
     SHR_VX_VY   |-> <<8, NullOpt, NullOpt, 6>>,
     SUBN_VX_VY  |-> <<8, NullOpt, NullOpt, 7>>,
     SHL_VX_VY   |-> <<8, NullOpt, NullOpt, 14>>,
     SNE_VX_VY   |-> <<9, NullOpt, NullOpt, 0>>,
     LD_I_NNN    |-> <<10, NullOpt, NullOpt, NullOpt>>,
     JP_V0_NNN   |-> <<11, NullOpt, NullOpt, NullOpt>>,
     RND_VX_KK   |-> <<12, NullOpt, NullOpt, NullOpt>>,
     DRW_VX_VY_N |-> <<13, NullOpt, NullOpt, NullOpt>>,
     SKP_VX      |-> <<14, NullOpt, 9, 14>>,
     SKNP_VX     |-> <<14, NullOpt, 10, 1>>,
     LD_VX_DT    |-> <<15, NullOpt, 0, 7>>,
     LD_VX_K     |-> <<15, NullOpt, 0, 10>>,
     LD_DT_VX    |-> <<15, NullOpt, 1, 5>>,
     LD_ST_VX    |-> <<15, NullOpt, 1, 8>>,
     ADD_I_VX    |-> <<15, NullOpt, 1, 14>>,
     LD_F_VX     |-> <<15, NullOpt, 2, 9>>,
     LD_B_VX     |-> <<15, NullOpt, 3, 3>>,
     LD_imm_I_VX |-> <<15, NullOpt, 5, 5>>,
     LD_VX_imm_I |-> <<15, NullOpt, 6, 5>>]

OpNames == DOMAIN OpEncoding

\* m_op_tree after setup_op_handlers: the key paths of the four nested maps.
\* A path of length k is present when some handler's encoding starts with it.
m_op_tree == {SubSeq(OpEncoding[h], 1, k) : h \in OpNames, k \in 0..4}

\* One level of the lookup: the exact key first, the wildcard key if absent,
\* and no entry if both are absent.
TreeStep(at, nibble) ==
    IF ~at.found THEN at
    ELSE IF Append(at.path, nibble) \in m_op_tree
         THEN [found |-> TRUE, path |-> Append(at.path, nibble)]
    ELSE IF Append(at.path, NullOpt) \in m_op_tree
         THEN [found |-> TRUE, path |-> Append(at.path, NullOpt)]
    ELSE [found |-> FALSE, path |-> at.path]

\* The handler stored at the leaf a full key path ends in.
HandlerOfPath(path) == CHOOSE h \in OpNames : OpEncoding[h] = path

\* cpu::get_op_handler_for_instruction: the handler's name, or "none" (std::nullopt)
get_op_handler_for_instruction(instr) ==
    LET n  == Nibbles(instr)
        l1 == {TreeStep([found |-> TRUE, path |-> << >>], n[1])}
        l2 == {TreeStep(p1, n[2]) : p1 \in l1}
        l3 == {TreeStep(p2, n[3]) : p2 \in l2}
        l4 == {TreeStep(p3, n[4]) : p3 \in l3}
    IN  CHOOSE h \in {IF p4.found THEN HandlerOfPath(p4.path) ELSE "none" :
                         p4 \in l4} : TRUE

\* A lookup made with operator[]: the keys it does not find it puts in.
LookupInserts_Subscript(instr) ==
    {SubSeq(Nibbles(instr), 1, k) : k \in 1..4} \ m_op_tree

\* The key paths a lookup adds to m_op_tree: none, it only searches
LookupInserts(instr) == {}

\* What dasm_op returns when no handler is found (std::nullopt).
NoText == [found |-> FALSE, handler |-> "none", operands |-> operand_data(0)]

\* cpu::dasm_op: the instruction at the address through its handler's m_dasm_op,
\* as the handler's name with the operands it prints
dasm_op(c, address) ==
    LET instr == read_u16(c, address)
    IN  IF get_op_handler_for_instruction(instr) = "none" THEN NoText
        ELSE [found |-> TRUE, handler |-> get_op_handler_for_instruction(instr),
              operands |-> operand_data(instr)]

\* ------------------------------------------------------ instruction semantics

\* The instruction word the program counter points at.
InstrAtPc(c) == read_u16(c, c.pc)

\* The handler that instruction resolves to.
HandlerAtPc(c) == get_op_handler_for_instruction(InstrAtPc(c))

\* Bit col (0 = most significant) of a sprite byte.
SpriteBit(byte, col) == (byte \div (2 ^ (7 - col))) % 2

\* DRW, one sprite row: XOR the byte at I + row into the screen at (Vx, Vy + row),
\* wrapping in the screen mode; VF becomes 1 when a lit pixel is erased.
DrwRow(c, op, row) ==
    LET byte   == RamAt(c.ram, c.i + row)
        pixels == {<<(c.gpr[op.m_x] + col) % ScreenW, (c.gpr[op.m_y] + row) % ScreenH>> :
                      col \in {k \in 0..7 : SpriteBit(byte, k) = 1}}
        erased == pixels \cap c.screen # {}
    IN  [c EXCEPT !.screen = (c.screen \ pixels) \cup (pixels \ c.screen),
                  !.gpr[15] = IF erased THEN 1 ELSE @]

\* DRW, rows from..(n - 1) in order.
RECURSIVE DrwRows(_, _, _)
DrwRows(c, op, from) ==
    IF from >= op.m_n THEN c ELSE DrwRows(DrwRow(c, op, from), op, from + 1)

\* The fatal conditions without the test for a full stack.
ExecFault_NoOverflowTest(c) ==
    \/ c.pc > RamSize - 2
    \/ HandlerAtPc(c) = "none"
    \/ HandlerAtPc(c) = "RET" /\ c.sp = 0

\* The fatal conditions of a cycle (section 7): a program counter out of range,
\* a decode miss, CALL with a full stack, RET with an empty stack.
ExecFault(c) ==
    \/ c.pc > RamSize - 2
    \/ HandlerAtPc(c) = "none"
    \/ HandlerAtPc(c) = "CALL" /\ c.sp >= StackSize
    \/ HandlerAtPc(c) = "RET" /\ c.sp = 0

\* A CALL that saves its own address.
ReturnAddress_Self(c) == c.pc

\* The address CALL saves: that of the instruction after it
ReturnAddress(c) == c.pc + 2

\* The handler's m_execute_op on the machine state.
ExecOp(c, h, op) ==
    CASE h = "CLS"  -> [c EXCEPT !.screen = {}, !.pc = c.pc + 2]
      [] h = "RET"  -> [c EXCEPT !.pc = c.stack[c.sp - 1], !.sp = c.sp - 1]
      [] h = "JP"   -> [c EXCEPT !.pc = op.m_nnn]
      [] h = "CALL" -> [c EXCEPT !.stack[c.sp] = ReturnAddress(c), !.sp = c.sp + 1,
                                 !.pc = op.m_nnn]
      [] h = "SE_VX_KK"  -> [c EXCEPT !.pc = IF c.gpr[op.m_x] = op.m_kk
                                             THEN c.pc + 4 ELSE c.pc + 2]
      [] h = "SNE_VX_KK" -> [c EXCEPT !.pc = IF c.gpr[op.m_x] # op.m_kk
                                             THEN c.pc + 4 ELSE c.pc + 2]
      [] h = "LD_VX_KK"  -> [c EXCEPT !.gpr[op.m_x] = op.m_kk, !.pc = c.pc + 2]
      [] h = "ADD_VX_KK" -> [c EXCEPT !.gpr[op.m_x] = (@ + op.m_kk) % 256,
                                      !.pc = c.pc + 2]
      [] h = "LD_I_NNN"  -> [c EXCEPT !.i = op.m_nnn, !.pc = c.pc + 2]
      [] h = "DRW_VX_VY_N" ->
            [DrwRows([c EXCEPT !.gpr[15] = 0], op, 0) EXCEPT !.pc = c.pc + 2]

\* cpu::execute_op_at_pc: one fetch-decode-execute cycle.  A fatal condition
\* leaves the machine state, the program counter included, as it is.
execute_op_at_pc(c) ==
    IF ExecFault(c) THEN c
    ELSE ExecOp(c, HandlerAtPc(c), operand_data(InstrAtPc(c)))

\* The stores of one cycle as the other thread can see them: a DRW of n > 1
\* rows writes the screen row by row, every other instruction in one piece.
ExecParts(c) ==
    IF ~ExecFault(c) /\ HandlerAtPc(c) = "DRW_VX_VY_N" /\ operand_data(InstrAtPc(c)).m_n > 1
    THEN operand_data(InstrAtPc(c)).m_n ELSE 1

\* Part k (0-based) of the cycle at pc; the last part completes the instruction.
ExecPart(c, k) ==
    IF ExecParts(c) = 1 THEN execute_op_at_pc(c)
    ELSE LET op   == operand_data(InstrAtPc(c))
             from == IF k = 0 THEN [c EXCEPT !.gpr[15] = 0] ELSE c
             row  == DrwRow(from, op, k)
         IN  IF k = op.m_n - 1 THEN [row EXCEPT !.pc = c.pc + 2] ELSE row

\* ------------------------------------------------------------------ inputs

\* The ROM images the loader supplies.
\* LD I, 0x206; DRW V0, V0, 2; JP 0x202; the sprite 0x80 0x80
RomDraw == [head |-> <<162, 6, 208, 2, 18, 2, 128, 128>>, size |-> 8]

\* CALL 0x204; JP 0x200; RET
RomCall == [head |-> <<34, 4, 18, 0, 0, 238>>, size |-> 6]

\* JP 0x200 followed by zeros, one byte longer than 0x1000 - 0x200
RomBig == [head |-> <<18, 0>>, size |-> 3585]

NoRom == [head |-> << >>, size |-> 0]

\* enum cpu_message_type, _last excluded
MessageTypes == {"LoadROM", "SetStateRunning", "SetStatePaused"}

\* struct cpu_message: the type, the data, and the load address a load command carries
cpu_message(type, data, address) ==
    [m_type |-> type, m_data |-> data, m_address |-> address]

\* The message of the n-th send_message call: the instance is told from its copies
\* and from equal messages sent before or after it by the call's number.
Instance(message, n) ==
    [m_type |-> message.m_type, m_data |-> message.m_data,
     m_address |-> message.m_address, m_seq |-> n]

\* The commands the caller sends.
Messages ==
    {cpu_message("LoadROM", RomDraw, 512),
     cpu_message("LoadROM", RomCall, 768),
     cpu_message("LoadROM", RomBig, 512),
     cpu_message("SetStateRunning", NoRom, 0),
     cpu_message("SetStatePaused", NoRom, 0)}

\* ------------------------------------------------------------------- state

VARIABLES
    m_cpu_state,            \* cpu_state: "paused" or "running"
    m_cpu,                  \* the cpu instance
    m_unhandled_messages,   \* std::queue<cpu_message>
    m_message_handlers,     \* per message type, the handlers in registration order
    m_cpu_thread_mutex,     \* the mutex's owner: "free", "worker" or "caller"
    die,                    \* cpu_thread's local flag
    wpc,                    \* where the worker is in cpu_thread
    hidx,                   \* the handler the worker's for loop is at (1-based)
    wpart,                  \* the part of the handler or cycle the worker is at
    cpc,                    \* where the caller is
    cmsg,                   \* send_message's argument
    sent,                   \* send_message calls made so far
    fb_read,                \* the caller's last framebuffer read
    last_call,              \* the last completed call into the cpu and its result
    last_state_cmd,         \* the last set-state command the worker applied
    cpu_calls,              \* direct calls into the cpu made so far (CpuSpec)
    iter_start,             \* messages pending when the current iteration started
    iter_applied,           \* messages applied and popped in the current iteration
    iter_cycles,            \* cycles performed in the worker's current iteration
    iter_state,             \* the run state the current iteration's test saw
    handler_log,            \* the handlers called so far for the front message
    pushed,                 \* pushes onto the queue completed so far
    applied,                \* pops off the queue completed so far
    sleep_ms,               \* the duration of the worker's last sleep_for
    regs,                   \* register_message_handler calls made from outside
    looked_up,              \* the last instruction looked up and what was found
    dasm,                   \* the last dasm_op call and what it returned
    op_tree_added           \* the key paths put into m_op_tree after setup_op_handlers

vars == <<m_cpu_state, m_cpu, m_unhandled_messages, m_message_handlers,
          m_cpu_thread_mutex, die, wpc, hidx, wpart, cpc, cmsg, sent, fb_read,
          last_call, last_state_cmd, cpu_calls, iter_start, iter_applied,
          iter_cycles, iter_state, handler_log, pushed, applied, sleep_ms, regs,
          looked_up, dasm, op_tree_added>>

daemon_vars == <<m_cpu_state, m_unhandled_messages, m_message_handlers,
                 m_cpu_thread_mutex, die, wpc, hidx, wpart, cpc, cmsg, sent,
                 fb_read, last_state_cmd, iter_start, iter_applied, iter_cycles,
                 iter_state, handler_log, pushed, applied, sleep_ms, regs>>

iter_vars == <<iter_start, iter_applied, iter_cycles, iter_state>>

caller_vars == <<cpc, cmsg, sent, fb_read, cpu_calls>>

log_vars == <<handler_log, pushed, applied, sleep_ms, regs>>

cpu_aux_vars == <<looked_up, dasm, op_tree_added>>

\* The handlers the constructor registers.
RegisteredHandlers ==
    [t \in MessageTypes |->
        CASE t = "LoadROM"         -> <<"LoadROM_handler">>
          [] t = "SetStateRunning" -> <<"SetStateRunning_handler">>
          [] OTHER                 -> << >>]

\* cpu::cpu: the machine as reset() leaves it
cpu == reset([pc |-> 0])

NoCall == [op |-> "none", ok |-> TRUE, size |-> 0, address |-> 0]

\* cpu_daemon::cpu_daemon: paused, the handlers registered, the worker started
Init ==
    /\ m_cpu_state = "paused"
    /\ m_cpu = cpu
    /\ m_unhandled_messages = << >>
    /\ m_message_handlers = RegisteredHandlers
    /\ m_cpu_thread_mutex = "free"
    /\ die = FALSE
    /\ wpc = "while_die"
    /\ hidx = 0
    /\ wpart = 0
    /\ cpc = "idle"
    /\ cmsg = Instance(cpu_message("SetStateRunning", NoRom, 0), 0)
    /\ sent = 0
    /\ fb_read = [done |-> FALSE, screen |-> {}, partial |-> FALSE]
    /\ last_call = NoCall
    /\ last_state_cmd = "none"
    /\ cpu_calls = 0
    /\ iter_start = 0
    /\ iter_applied = 0
    /\ iter_cycles = 0
    /\ iter_state = "unchecked"
    /\ handler_log = << >>
    /\ pushed = 0
    /\ applied = 0
    /\ sleep_ms = 0
    /\ regs = 0
    /\ looked_up = [done |-> FALSE, instr |-> 0, handler |-> "none"]
    /\ dasm = [done |-> FALSE, address |-> 0, text |-> NoText]
    /\ op_tree_added = {}

\* ------------------------------------------------------------------ caller

\* send_message is entered with one of the messages as its argument
SendCall(messages) ==
    /\ cpc = "idle"
    /\ sent < MaxSends
    /\ \E message \in messages : cmsg' = Instance(message, sent + 1)
    /\ sent' = sent + 1
    /\ cpc' = "send_lock"
    /\ UNCHANGED <<m_cpu_state, m_cpu, m_unhandled_messages, m_message_handlers,
                   m_cpu_thread_mutex, die, wpc, hidx, wpart, fb_read, last_call>>
    /\ UNCHANGED <<last_state_cmd, cpu_calls>>
    /\ UNCHANGED iter_vars
    /\ UNCHANGED log_vars
    /\ UNCHANGED cpu_aux_vars

C_SendCall == SendCall(Messages)

\* std::lock_guard<std::mutex> lock(this->m_cpu_thread_mutex)
C_SendLock ==
    /\ cpc = "send_lock"
    /\ m_cpu_thread_mutex = "free"
    /\ m_cpu_thread_mutex' = "caller"
    /\ cpc' = "send_push"
    /\ UNCHANGED <<m_cpu_state, m_cpu, m_unhandled_messages, m_message_handlers,
                   die, wpc, hidx, wpart, cmsg, sent, fb_read, last_call>>
    /\ UNCHANGED <<last_state_cmd, cpu_calls>>
    /\ UNCHANGED iter_vars
    /\ UNCHANGED log_vars
    /\ UNCHANGED cpu_aux_vars

\* A push that puts the message at the head of the queue.
push_front(queue, message) == <<message>> \o queue

\* std::queue::push: the message goes to the back
push(queue, message) == Append(queue, message)

\* m_unhandled_messages.push(message)
C_SendPush ==
    /\ cpc = "send_push"
    /\ m_unhandled_messages' = push(m_unhandled_messages, cmsg)
    /\ cpc' = "send_unlock"
    /\ UNCHANGED <<m_cpu_state, m_cpu, m_message_handlers, m_cpu_thread_mutex,
                   die, wpc, hidx, wpart, cmsg, sent, fb_read, last_call>>
    /\ UNCHANGED <<last_state_cmd, cpu_calls>>
    /\ UNCHANGED iter_vars
    /\ pushed' = pushed + 1
    /\ UNCHANGED <<handler_log, applied, sleep_ms, regs>>
    /\ UNCHANGED cpu_aux_vars

\* the lock_guard goes out of scope and send_message returns
C_SendUnlock ==
    /\ cpc = "send_unlock"
    /\ m_cpu_thread_mutex' = "free"
    /\ cpc' = "idle"
    /\ UNCHANGED <<m_cpu_state, m_cpu, m_unhandled_messages, m_message_handlers,
                   die, wpc, hidx, wpart, cmsg, sent, fb_read, last_call>>
    /\ UNCHANGED <<last_state_cmd, cpu_calls>>
    /\ UNCHANGED iter_vars
    /\ UNCHANGED log_vars
    /\ UNCHANGED cpu_aux_vars

\* The worker is part-way through the stores of a cycle.
PartialCycle == wpc = "execute" /\ wpart > 0

\* get_screen_framebuffer: a reference to the cpu's array, read without a lock
C_GetScreenFramebuffer ==
    /\ cpc = "idle"
    /\ fb_read' = [done |-> TRUE, screen |-> m_cpu.screen, partial |-> PartialCycle]
    /\ UNCHANGED <<m_cpu_state, m_cpu, m_unhandled_messages, m_message_handlers,
                   m_cpu_thread_mutex, die, wpc, hidx, wpart, cpc, cmsg, sent,
                   last_call>>
    /\ UNCHANGED <<last_state_cmd, cpu_calls>>
    /\ UNCHANGED iter_vars
    /\ UNCHANGED log_vars
    /\ UNCHANGED cpu_aux_vars

\* ~cpu_daemon: m_cpu_thread.join() returns once cpu_thread has returned
C_Destructor ==
    /\ cpc \in {"idle", "join"}
    /\ cpc' = IF wpc = "done" THEN "joined" ELSE "join"
    /\ UNCHANGED <<m_cpu_state, m_cpu, m_unhandled_messages, m_message_handlers,
                   m_cpu_thread_mutex, die, wpc, hidx, wpart, cmsg, sent, fb_read,
                   last_call>>
    /\ UNCHANGED <<last_state_cmd, cpu_calls>>
    /\ UNCHANGED iter_vars
    /\ UNCHANGED log_vars
    /\ UNCHANGED cpu_aux_vars

Caller ==
    \/ C_SendCall
    \/ C_SendLock
    \/ C_SendPush
    \/ C_SendUnlock
    \/ C_GetScreenFramebuffer
    \/ C_Destructor

\* ------------------------------------------------------------------ worker

\* const auto &msg = m_unhandled_messages.front()
msg == Head(m_unhandled_messages)

\* m_message_handlers.at(msg.m_type)
HandlersOfMsg == m_message_handlers[msg.m_type]

\* An empty() whose result is the one the first test saw: the queue as constructed.
EmptyReads_Stale == {TRUE}

\* What an unlocked m_unhandled_messages.empty() can return: the queue's state, or,
\* while the caller's push is in flight, the state before or after that push.
EmptyReads ==
    IF cpc = "send_push"
    THEN {m_unhandled_messages = << >>, FALSE}
    ELSE {m_unhandled_messages = << >>}

\* while (!die): an iteration of the outer loop starts
W_WhileDie ==
    /\ wpc = "while_die"
    /\ wpc' = IF die THEN "done" ELSE "while_empty"
    /\ iter_start' = Len(m_unhandled_messages)
    /\ iter_applied' = 0
    /\ iter_cycles' = 0
    /\ iter_state' = "unchecked"
    /\ UNCHANGED <<m_cpu_state, m_cpu, m_unhandled_messages, m_message_handlers,
                   m_cpu_thread_mutex, die, hidx, wpart, last_call>>
    /\ UNCHANGED last_state_cmd
    /\ UNCHANGED caller_vars
    /\ UNCHANGED log_vars
    /\ UNCHANGED cpu_aux_vars

\* while (!m_unhandled_messages.empty()): the test, made without the mutex
W_WhileEmpty ==
    /\ wpc = "while_empty"
    /\ \E empty \in EmptyReads : wpc' = IF empty THEN "if_running" ELSE "lock"
    /\ UNCHANGED <<m_cpu_state, m_cpu, m_unhandled_messages, m_message_handlers,
                   m_cpu_thread_mutex, die, hidx, wpart, last_call>>
    /\ UNCHANGED iter_vars
    /\ UNCHANGED last_state_cmd
    /\ UNCHANGED caller_vars
    /\ UNCHANGED log_vars
    /\ UNCHANGED cpu_aux_vars

\* std::lock_guard<std::mutex> lock(m_cpu_thread_mutex)
W_Lock ==
    /\ wpc = "lock"
    /\ m_cpu_thread_mutex = "free"
    /\ m_cpu_thread_mutex' = "worker"
    /\ wpc' = "front"
    /\ UNCHANGED <<m_cpu_state, m_cpu, m_unhandled_messages, m_message_handlers,
                   die, hidx, wpart, last_call>>
    /\ UNCHANGED iter_vars
    /\ UNCHANGED last_state_cmd
    /\ UNCHANGED caller_vars
    /\ UNCHANGED log_vars
    /\ UNCHANGED cpu_aux_vars

\* msg = front(); the for loop over the type's handlers begins
W_Front ==
    /\ wpc = "front"
    /\ m_unhandled_messages # << >>
    /\ wpc' = "handlers"
    /\ hidx' = 1
    /\ wpart' = 0
    /\ UNCHANGED <<m_cpu_state, m_cpu, m_unhandled_messages, m_message_handlers,
                   m_cpu_thread_mutex, die, last_call>>
    /\ UNCHANGED iter_vars
    /\ UNCHANGED last_state_cmd
    /\ UNCHANGED caller_vars
    /\ UNCHANGED log_vars
    /\ UNCHANGED cpu_aux_vars

\* A for loop that steps over every other handler.
NextHandler_Skip(i) == i + 2

\* for (auto &handler : ...): the loop moves to the next handler of the list
NextHandler(i) == i + 1

\* The worker is about to call handler h of the front message, at part k of it.
AtHandler(h, k) ==
    /\ wpc = "handlers"
    /\ hidx <= Len(HandlersOfMsg)
    /\ HandlersOfMsg[hidx] = h
    /\ wpart = k

\* the LoadROM handler: m_cpu.reset()
W_LoadROM_Reset ==
    /\ AtHandler("LoadROM_handler", 0)
    /\ m_cpu' = reset(m_cpu)
    /\ last_call' = [op |-> "reset", ok |-> TRUE, size |-> 0, address |-> 0]
    /\ wpart' = 1
    /\ UNCHANGED <<m_cpu_state, m_unhandled_messages, m_message_handlers,
                   m_cpu_thread_mutex, die, wpc, hidx>>
    /\ UNCHANGED iter_vars
    /\ UNCHANGED last_state_cmd
    /\ UNCHANGED caller_vars
    /\ UNCHANGED log_vars
    /\ UNCHANGED cpu_aux_vars

\* the LoadROM handler: m_cpu.load_rom(msg.m_data, 0x200), the result dropped
W_LoadROM_Load ==
    /\ AtHandler("LoadROM_handler", 1)
    /\ m_cpu' = load_rom(m_cpu, msg.m_data, HandlerLoadAddress).cpu
    /\ last_call' = [op |-> "load_rom",
                     ok |-> load_rom(m_cpu, msg.m_data, HandlerLoadAddress).ok,
                     size |-> msg.m_data.size, address |-> HandlerLoadAddress]
    /\ wpart' = 0
    /\ hidx' = NextHandler(hidx)
    /\ UNCHANGED <<m_cpu_state, m_unhandled_messages, m_message_handlers,
                   m_cpu_thread_mutex, die, wpc>>
    /\ UNCHANGED iter_vars
    /\ UNCHANGED last_state_cmd
    /\ UNCHANGED caller_vars
    /\ handler_log' = Append(handler_log, "LoadROM_handler")
    /\ UNCHANGED <<pushed, applied, sleep_ms, regs>>
    /\ UNCHANGED cpu_aux_vars

\* cpu_daemon::set_cpu_state
set_cpu_state(state) == m_cpu_state' = state

\* the SetStateRunning handler: this->set_cpu_state(cpu_state::running)
W_SetStateRunning ==
    /\ AtHandler("SetStateRunning_handler", 0)
    /\ set_cpu_state("running")
    /\ hidx' = NextHandler(hidx)
    /\ UNCHANGED <<m_cpu, m_unhandled_messages, m_message_handlers,
                   m_cpu_thread_mutex, die, wpc, wpart, last_call>>
    /\ UNCHANGED iter_vars
    /\ UNCHANGED last_state_cmd
    /\ UNCHANGED caller_vars
    /\ handler_log' = Append(handler_log, "SetStateRunning_handler")
    /\ UNCHANGED <<pushed, applied, sleep_ms, regs>>
    /\ UNCHANGED cpu_aux_vars

\* A pop that empties the queue.
pop_all(queue) == << >>

\* std::queue::pop: the front message goes
pop(queue) == Tail(queue)

\* m_unhandled_messages.pop(), once the for loop has run every handler
W_Pop ==
    /\ wpc = "handlers"
    /\ hidx > Len(HandlersOfMsg)
    /\ m_unhandled_messages' = pop(m_unhandled_messages)
    /\ iter_applied' = iter_applied + 1
    /\ last_state_cmd' = CASE msg.m_type = "SetStateRunning" -> "running"
                            [] msg.m_type = "SetStatePaused"  -> "paused"
                            [] OTHER                          -> last_state_cmd
    /\ wpc' = "unlock"
    /\ UNCHANGED <<m_cpu_state, m_cpu, m_message_handlers, m_cpu_thread_mutex,
                   die, hidx, wpart, last_call, iter_start, iter_cycles, iter_state>>
    /\ UNCHANGED caller_vars
    /\ applied' = applied + 1
    /\ handler_log' = << >>
    /\ UNCHANGED <<pushed, sleep_ms, regs>>
    /\ UNCHANGED cpu_aux_vars

\* The inner loop written as an if: one message an iteration.
AfterDrainBody_If == "if_running"

\* The statement after the body of the inner while loop: its test again.
AfterDrainBody == "while_empty"

\* the lock_guard goes out of scope at the end of the inner loop's body
W_Unlock ==
    /\ wpc = "unlock"
    /\ m_cpu_thread_mutex' = "free"
    /\ wpc' = AfterDrainBody
    /\ UNCHANGED <<m_cpu_state, m_cpu, m_unhandled_messages, m_message_handlers,
                   die, hidx, wpart, last_call>>
    /\ UNCHANGED iter_vars
    /\ UNCHANGED last_state_cmd
    /\ UNCHANGED caller_vars
    /\ UNCHANGED log_vars
    /\ UNCHANGED cpu_aux_vars

\* cpu_daemon::get_cpu_state
get_cpu_state == m_cpu_state

\* A cycle is run whatever the run state.
CycleDue_Always == TRUE

\* this->get_cpu_state() == cpu_state::running
CycleDue == get_cpu_state = "running"

\* if (running) { execute_op_at_pc(); sleep_for(); }: the test
W_IfRunning ==
    /\ wpc = "if_running"
    /\ iter_state' = get_cpu_state
    /\ wpc' = IF CycleDue THEN "execute" ELSE "while_die"
    /\ UNCHANGED <<m_cpu_state, m_cpu, m_unhandled_messages, m_message_handlers,
                   m_cpu_thread_mutex, die, hidx, wpart, last_call, iter_start, iter_applied,
                   iter_cycles>>
    /\ UNCHANGED last_state_cmd
    /\ UNCHANGED caller_vars
    /\ UNCHANGED log_vars
    /\ UNCHANGED cpu_aux_vars

\* m_cpu.execute_op_at_pc(), one part of its stores at a time
W_Execute ==
    /\ wpc = "execute"
    /\ m_cpu' = ExecPart(m_cpu, wpart)
    /\ IF wpart + 1 < ExecParts(m_cpu)
       THEN /\ wpart' = wpart + 1
            /\ UNCHANGED <<wpc, last_call, iter_cycles>>
       ELSE /\ wpart' = 0
            /\ wpc' = "sleep"
            /\ last_call' = [op |-> "execute", ok |-> ~ExecFault(m_cpu),
                             size |-> 0, address |-> m_cpu.pc]
            /\ iter_cycles' = iter_cycles + 1
    /\ UNCHANGED <<m_cpu_state, m_unhandled_messages, m_message_handlers,
                   m_cpu_thread_mutex, die, hidx, iter_start, iter_applied, iter_state>>
    /\ UNCHANGED last_state_cmd
    /\ UNCHANGED caller_vars
    /\ UNCHANGED log_vars
    /\ UNCHANGED cpu_aux_vars

\* std::this_thread::sleep_for(...), then the outer loop's test
W_Sleep ==
    /\ wpc = "sleep"
    /\ wpc' = "while_die"
    /\ UNCHANGED <<m_cpu_state, m_cpu, m_unhandled_messages, m_message_handlers,
                   m_cpu_thread_mutex, die, hidx, wpart, last_call>>
    /\ UNCHANGED iter_vars
    /\ UNCHANGED last_state_cmd
    /\ UNCHANGED caller_vars
    /\ sleep_ms' = SleepMs
    /\ UNCHANGED <<handler_log, pushed, applied, regs>>
    /\ UNCHANGED cpu_aux_vars

\* cpu_daemon::cpu_thread
Worker ==
    \/ W_WhileDie
    \/ W_WhileEmpty
    \/ W_Lock
    \/ W_Front
    \/ W_LoadROM_Reset
    \/ W_LoadROM_Load
    \/ W_SetStateRunning
    \/ W_Pop
    \/ W_Unlock
    \/ W_IfRunning
    \/ W_Execute
    \/ W_Sleep

Next == Caller \/ Worker

Spec == Init /\ [][Next]_vars

\* The worker is scheduled while it can step, and join returns once it may.
FairSpec == Spec /\ WF_vars(Worker) /\ WF_vars(C_Destructor)

\* One command of each type.
TypeMessages ==
    {cpu_message("LoadROM", RomCall, 768),
     cpu_message("SetStateRunning", NoRom, 0),
     cpu_message("SetStatePaused", NoRom, 0)}

\* send_message is entered with a command told by its type alone
T_SendCall == SendCall(TypeMessages)

\* send_message between its entry and its return
C_SendBody == C_SendLock \/ C_SendPush \/ C_SendUnlock

\* Fair scheduling of the worker and of the lock: the worker runs while it can
\* step, and a caller inside send_message goes on to lock, push and release.
LiveSpec ==
    /\ Init
    /\ [][T_SendCall \/ C_SendBody \/ Worker]_vars
    /\ WF_vars(Worker)
    /\ WF_vars(C_SendBody)

\* ------------------------------------------- handlers registered from outside

\* The handlers the constructor's lambdas are.
ConstructorHandlers == {"LoadROM_handler", "SetStateRunning_handler"}

\* The n-th handler registered from outside the daemon.
Observer(n) == "observer_" \o ToString(n)

\* register_message_handler(type, hdl): push_back on the type's list.  The owner
\* registers before its first send_message: the worker reads the lists only
\* while it handles a message, and the call takes no lock.
C_Register ==
    /\ cpc = "idle"
    /\ sent = 0
    /\ regs < MaxRegs
    /\ regs' = regs + 1
    /\ \E type \in MessageTypes :
          m_message_handlers' =
              [m_message_handlers EXCEPT ![type] = Append(@, Observer(regs + 1))]
    /\ UNCHANGED <<m_cpu_state, m_cpu, m_unhandled_messages, m_cpu_thread_mutex,
                   die, wpc, hidx, wpart, last_call, last_state_cmd>>
    /\ UNCHANGED <<handler_log, pushed, applied, sleep_ms>>
    /\ UNCHANGED iter_vars
    /\ UNCHANGED caller_vars
    /\ UNCHANGED cpu_aux_vars

\* handler(msg) for a handler registered from outside; what it does is its
\* owner's business and leaves the daemon's members alone
W_Observer ==
    /\ wpc = "handlers"
    /\ hidx <= Len(HandlersOfMsg)
    /\ HandlersOfMsg[hidx] \notin ConstructorHandlers
    /\ handler_log' = Append(handler_log, HandlersOfMsg[hidx])
    /\ hidx' = NextHandler(hidx)
    /\ UNCHANGED <<m_cpu_state, m_cpu, m_unhandled_messages, m_message_handlers,
                   m_cpu_thread_mutex, die, wpc, wpart, last_call, last_state_cmd>>
    /\ UNCHANGED <<pushed, applied, sleep_ms, regs>>
    /\ UNCHANGED iter_vars
    /\ UNCHANGED caller_vars
    /\ UNCHANGED cpu_aux_vars

RegNext == C_Register \/ T_SendCall \/ C_SendBody \/ Worker \/ W_Observer

\* The daemon with handlers registered by its owner besides the constructor's.
RegSpec == Init /\ [][RegNext]_vars

\* ------------------------------------------------------- the cpu called directly

\* The addresses a loader passes to load_rom.
LoadAddresses == {512, 768, 4090, 4092}

Roms == {RomDraw, RomCall, RomBig}

\* cpu::reset
Cpu_Reset ==
    /\ cpu_calls < MaxCpuCalls
    /\ cpu_calls' = cpu_calls + 1
    /\ m_cpu' = reset(m_cpu)
    /\ last_call' = [op |-> "reset", ok |-> TRUE, size |-> 0, address |-> 0]
    /\ UNCHANGED daemon_vars
    /\ UNCHANGED cpu_aux_vars

\* cpu::load_rom
Cpu_LoadRom ==
    /\ cpu_calls < MaxCpuCalls
    /\ cpu_calls' = cpu_calls + 1
    /\ \E rom \in Roms, address \in LoadAddresses :
          /\ m_cpu' = load_rom(m_cpu, rom, address).cpu
          /\ last_call' = [op |-> "load_rom", ok |-> load_rom(m_cpu, rom, address).ok,
                           size |-> rom.size, address |-> address]
    /\ UNCHANGED daemon_vars
    /\ UNCHANGED cpu_aux_vars

\* cpu::execute_op_at_pc
Cpu_Execute ==
    /\ cpu_calls < MaxCpuCalls
    /\ cpu_calls' = cpu_calls + 1
    /\ m_cpu' = execute_op_at_pc(m_cpu)
    /\ last_call' = [op |-> "execute", ok |-> ~ExecFault(m_cpu), size |-> 0,
                     address |-> m_cpu.pc]
    /\ UNCHANGED daemon_vars
    /\ UNCHANGED cpu_aux_vars

\* The 2-byte aligned addresses dasm_op is asked about.
DasmAddresses == {512, 514, 516, 768, 4094}

\* cpu::dasm_op
Cpu_Dasm ==
    /\ cpu_calls < MaxCpuCalls
    /\ cpu_calls' = cpu_calls + 1
    /\ \E address \in DasmAddresses :
          /\ dasm' = [done |-> TRUE, address |-> address,
                      text |-> dasm_op(m_cpu, address)]
          /\ op_tree_added' =
                op_tree_added \cup LookupInserts(read_u16(m_cpu, address))
    /\ UNCHANGED <<m_cpu, last_call, looked_up>>
    /\ UNCHANGED daemon_vars

CpuNext == Cpu_Reset \/ Cpu_LoadRom \/ Cpu_Execute \/ Cpu_Dasm

CpuSpec == Init /\ [][CpuNext]_vars

\* ------------------------------------------------------- programs run to the end

\* ADD V0, 1; CALL 0x208; SE V0, 0x20; JP 0x200; RET: thirty-two calls and
\* returns, then the skip lands on the RET with the stack empty
RomCount == [head |-> <<112, 1, 34, 8, 48, 32, 18, 0, 0, 238>>, size |-> 10]

\* CALL 0x200: the routine calls itself
RomRecurse == [head |-> <<34, 0>>, size |-> 2]

\* The addresses a CALL is placed at, the last aligned one that holds it included.
CallSites == {514, 768, 4092}

\* The addresses called: aligned, odd, and the last aligned address of memory.
CallTargets == {1024, 1281, 4094}

\* The two bytes of the instruction with first nibble op and operand nnn.
Rom_nnn(op, nnn) == [head |-> <<op * 16 + nnn \div 256, nnn % 256>>, size |-> 2]

\* A program as the load_rom calls that put it into memory: [rom, address]s.
Programs ==
    {<<[rom |-> RomCount, address |-> ResetPc]>>,
     <<[rom |-> RomRecurse, address |-> ResetPc]>>}
    \cup {<<[rom |-> Rom_nnn(1, p), address |-> ResetPc],
            [rom |-> Rom_nnn(2, addr), address |-> p],
            [rom |-> [head |-> <<0, 238>>, size |-> 2], address |-> addr]>> :
              p \in CallSites, addr \in CallTargets}

\* reset(), then the program's load_rom calls in order.
RECURSIVE LoadProgram(_, _)
LoadProgram(c, program) ==
    IF program = << >> THEN c
    ELSE LoadProgram(load_rom(c, Head(program).rom, Head(program).address).cpu,
                     Tail(program))

\* A program has been loaded.
Loaded == last_call.op # "none"

\* cpu::reset and cpu::load_rom: a program is put into memory
Run_Load ==
    /\ ~Loaded
    /\ \E program \in Programs :
          /\ m_cpu' = LoadProgram(reset(m_cpu), program)
          /\ last_call' = [op |-> "load_rom", ok |-> TRUE, size |-> Len(program),
                           address |-> ResetPc]
    /\ UNCHANGED cpu_calls
    /\ UNCHANGED cpu_aux_vars
    /\ UNCHANGED daemon_vars

\* cpu::execute_op_at_pc, cycle after cycle
Run_Execute ==
    /\ Loaded
    /\ m_cpu' = execute_op_at_pc(m_cpu)
    /\ last_call' = [op |-> "execute", ok |-> ~ExecFault(m_cpu), size |-> 0,
                     address |-> m_cpu.pc]
    /\ UNCHANGED cpu_calls
    /\ UNCHANGED cpu_aux_vars
    /\ UNCHANGED daemon_vars

RunSpec == Init /\ [][Run_Load \/ Run_Execute]_vars

\* ------------------------------------------------------ the lookup called alone

\* Every 16-bit instruction word.
Instructions == 0..65535

\* cpu::get_op_handler_for_instruction(instruction), once in a run
Decode_Lookup ==
    /\ ~looked_up.done
    /\ \E instr \in Instructions :
          looked_up' = [done |-> TRUE, instr |-> instr,
                        handler |-> get_op_handler_for_instruction(instr)]
          /\ op_tree_added' = op_tree_added \cup LookupInserts(instr)
    /\ UNCHANGED <<m_cpu, last_call, cpu_calls, dasm>>
    /\ UNCHANGED daemon_vars

DecodeSpec == Init /\ [][Decode_Lookup]_vars

\* ------------------------------------------------------------------ claims

\* The worker is inside a call of one of the front message's handlers.
HandlerRunning == wpc = "handlers" /\ hidx <= Len(HandlersOfMsg)

\* The worker has run every handler of the front message and is about to pop it.
AtPop == wpc = "handlers" /\ hidx > Len(HandlersOfMsg)

\* C1, the step part: the run state changes only in a step in which the worker
\* applies a set-state command, a step that performs (part of) a cycle is taken
\* only while running, and while paused the machine state changes only in a
\* command handler.
C1_Step ==
    /\ m_cpu_state' # m_cpu_state =>
          HandlerRunning /\ msg.m_type \in {"SetStateRunning", "SetStatePaused"}
    /\ (wpc = "execute" /\ (wpc' # wpc \/ wpart' # wpart)) => m_cpu_state = "running"
    /\ (m_cpu_state = "paused" /\ m_cpu' # m_cpu) => HandlerRunning

\* C1: the scheduler starts paused, its state changes only when the worker applies
\* a set-state command, and no cycle is performed while it is paused.
C1_PausedRunsNoCycle == m_cpu_state = "paused" /\ [][C1_Step]_vars

\* C1's case: paused, the worker has gone through an iteration's test without a
\* cycle, and a command handler has changed the machine state.
C1_Witness ==
    /\ m_cpu_state = "paused"
    /\ iter_state = "paused"
    /\ wpc = "while_die"
    /\ last_call.op = "load_rom"
    /\ m_cpu.ram # cpu.ram

\* C2: once the worker has applied a SetStatePaused command, and until it applies
\* a SetStateRunning command, the scheduler is paused and no cycle is executed.
C2_PausedAfterSetPaused ==
    last_state_cmd = "paused" =>
        m_cpu_state = "paused" /\ wpc \notin {"execute", "sleep"}

\* C3: when the worker reaches the cycle of an iteration, every message that was
\* pending when the iteration started has been applied and popped; an iteration
\* that saw the state running performs exactly one cycle, and one that saw it
\* paused performs none.
C3_DrainThenOneCycle ==
    /\ wpc \in {"execute", "sleep"} => iter_applied >= iter_start
    /\ wpc = "execute" => iter_state = "running" /\ iter_cycles = 0
    /\ wpc = "sleep" => iter_state = "running" /\ iter_cycles = 1
    /\ iter_state = "paused" => iter_cycles = 0
    /\ (wpc = "while_die" /\ iter_state = "running") => iter_cycles = 1

\* C3's case: an iteration that started with two messages pending has applied
\* them and then performed its one cycle.
C3_Witness ==
    /\ wpc = "sleep"
    /\ iter_start >= 2
    /\ iter_applied >= iter_start
    /\ iter_cycles = 1

\* C4: the queue mutex is not held while a command handler executes, so no
\* send_message waits for the lock during a handler.
C4_HandlerRunsUnlocked ==
    HandlerRunning => m_cpu_thread_mutex # "worker"

\* C5: every access to the queue (the caller's push; the worker's emptiness test,
\* front and pop) is made by a thread holding the mutex, and the worker never
\* tests the queue while the caller is pushing.
C5_QueueAccessLocked ==
    /\ cpc = "send_push" => m_cpu_thread_mutex = "caller"
    /\ (wpc \in {"while_empty", "front"} \/ AtPop) => m_cpu_thread_mutex = "worker"
    /\ ~(wpc = "while_empty" /\ cpc = "send_push")

\* C6: a framebuffer read from the caller never sees the screen part-way through
\* a cycle's stores.
C6_NoTornRead == fb_read.done => ~fb_read.partial

\* C7: when an iteration's cycle has hit a fatal condition the scheduler is paused
\* at the end of that iteration, with the program counter where it was.
C7_FaultPauses ==
    (wpc = "while_die" /\ iter_cycles = 1 /\ last_call.op = "execute" /\ ~last_call.ok)
        => m_cpu_state = "paused" /\ m_cpu.pc = last_call.address

\* C8: once the destructor has begun, the worker loop terminates and the join
\* completes.
C8_ShutdownJoins == (cpc = "join") ~> (cpc = "joined")

\* C9: when the LoadROM handler has run for a command whose rom fits at the
\* command's address, memory holds the rom's bytes at that address.
C9_LoadsAtCommandAddress ==
    (AtPop /\ msg.m_type = "LoadROM" /\ msg.m_data.size + msg.m_address <= 4096) =>
        \A k \in 0..(Len(msg.m_data.head) - 1) :
            RamAt(m_cpu.ram, msg.m_address + k) = RomByte(msg.m_data, k)

\* C10, the step part: a load_rom call succeeds exactly when size + address is at
\* most 0x1000, and a failed call leaves the machine state as it was.
C10_Step ==
    (cpu_calls' # cpu_calls /\ last_call'.op = "load_rom") =>
        /\ last_call'.ok <=> (last_call'.size + last_call'.address <= 4096)
        /\ ~last_call'.ok => m_cpu' = m_cpu

C16_FifoExactlyOnce ==
    /\ Len(m_unhandled_messages) = pushed - applied
    /\ \A i \in 1..Len(m_unhandled_messages) :
          m_unhandled_messages[i].m_seq = applied + i

\* Two commands were applied in one drain while a third was pushed behind them.
C16_Witness ==
    /\ wpc = "unlock"
    /\ applied = 2
    /\ iter_applied = 2
    /\ pushed = 3
    /\ m_unhandled_messages[1].m_seq = 3

\* The message the worker holds at the front has no handler registered for its type.
NoHandlerAtFront ==
    /\ wpc \in {"front", "handlers"}
    /\ m_unhandled_messages # << >>
    /\ HandlersOfMsg = << >>

C18_Step ==
    NoHandlerAtFront =>
        /\ m_cpu' = m_cpu
        /\ m_cpu_state' = m_cpu_state
        /\ m_message_handlers' = m_message_handlers
        /\ (wpc = "handlers" /\ wpc' # wpc) =>
              /\ wpc' = "unlock"
              /\ m_unhandled_messages' = Tail(m_unhandled_messages)
              /\ applied' = applied + 1

\* C18: a queued command whose type has no handler is removed with the machine,
\* the run state and the handler table as they were, and the commands queued
\* behind it stay queued, in order, for the worker's next pass.
C18_UnhandledRemoved == [][C18_Step]_vars

\* The first command sent was a SetStatePaused; it has just been popped and
\* another command waits behind it.
C18_Witness ==
    /\ wpc = "unlock"
    /\ applied = 1
    /\ last_state_cmd = "paused"
    /\ Len(m_unhandled_messages) >= 1

\* C19: the pause after a cycle is the period of the configured clock rate,
\* 1000 / m_clock_speed milliseconds (2 ms at the default 500 cycles a second).
C19_SleepIsClockPeriod == sleep_ms # 0 => sleep_ms * m_clock_speed = 1000

\* C17: under fair scheduling of the worker and the lock, every command that
\* send_message has pushed is in the end taken off the queue with its handlers
\* run, whether the scheduler is paused or running at the time.
C17_EventuallyApplied == \A n \in 1..MaxSends : (pushed >= n) ~> (applied >= n)

\* A cycle has been run, so the scheduler was running, and the last call into the
\* cpu is the load of a LoadROM command applied after it; nothing is left queued.
C17_Witness ==
    /\ sleep_ms = SleepMs
    /\ last_call.op = "load_rom"
    /\ pushed >= 2
    /\ applied = pushed

\* C11: for every queued instance of a command, all handlers registered for
\* its type run exactly once each, in registration order, before the instance
\* is removed: while the worker is in the loop the handlers called so far are
\* the list's first ones in order, and at the pop they are the whole list.
C11_HandlersInOrder ==
    /\ HandlerRunning => handler_log = SubSeq(HandlersOfMsg, 1, hidx - 1)
    /\ AtPop => handler_log = HandlersOfMsg

\* A SetStateRunning command is about to be popped after the constructor's
\* handler and two handlers registered later have run, in that order.
C11_Witness ==
    /\ AtPop
    /\ msg.m_type = "SetStateRunning"
    /\ handler_log = <<"SetStateRunning_handler", Observer(1), Observer(2)>>

\* The instruction has the pattern's nibble wherever the pattern fixes one.
Matches(instr, h) ==
    \A k \in 1..4 : OpEncoding[h][k] \in {NullOpt, Nibbles(instr)[k]}

\* The pattern fixes all four nibbles.
Exact(h) == \A k \in 1..4 : OpEncoding[h][k] # NullOpt

\* The pattern's instruction with every operand nibble set to fill (0 or 15).
PatternInstr(h, fill) ==
    LET nib(k) == IF OpEncoding[h][k] = NullOpt THEN fill ELSE OpEncoding[h][k]
    IN  nib(1) * 4096 + nib(2) * 256 + nib(3) * 16 + nib(4)

\* C12: the lookup resolves every instruction that matches some registered
\* pattern to a handler whose pattern it matches; the least and the greatest
\* instruction of each pattern resolve to that pattern's handler; and where an
\* exact pattern and a wildcard pattern both match, the exact one is found.
C12_LookupResolves ==
    looked_up.done =>
        /\ (\E h \in OpNames : Matches(looked_up.instr, h)) =>
               /\ looked_up.handler # "none"
               /\ Matches(looked_up.instr, looked_up.handler)
        /\ \A h \in OpNames :
               looked_up.instr \in {PatternInstr(h, 0), PatternInstr(h, 15)} =>
                   looked_up.handler = h
        /\ \A h \in OpNames :
               (Exact(h) /\ Matches(looked_up.instr, h)) => looked_up.handler = h

\* The cycle at pc is a CALL with the stack full.
CallOverflow == HandlerAtPc(m_cpu) = "CALL" /\ m_cpu.sp = StackSize

\* The cycle at pc is a RET with the stack empty.
RetUnderflow == HandlerAtPc(m_cpu) = "RET" /\ m_cpu.sp = 0

C13_Step ==
    /\ m_cpu'.sp \in 0..StackSize
    /\ (Loaded /\ (CallOverflow \/ RetUnderflow)) =>
          /\ m_cpu' = m_cpu
          /\ last_call'.op = "execute"
          /\ ~last_call'.ok

\* C13: the stack pointer stays within 0..16 in every machine state; a CALL at
\* depth 16 and a RET at depth 0 are fatal and leave the stack, the stack
\* pointer and all the rest of the machine as they were.
C13_StackBounds == m_cpu.sp \in 0..StackSize /\ [][C13_Step]_vars

\* The seventeenth nested CALL has been refused: the stack is full of the
\* sixteen return addresses and the program counter is still at the CALL.
C13_Witness ==
    /\ last_call = [op |-> "execute", ok |-> FALSE, size |-> 0, address |-> ResetPc]
    /\ CallOverflow
    /\ \A k \in 0..(StackSize - 1) : m_cpu.stack[k] = ResetPc + 2

\* The last cycle was a CALL that went through, and the cycle at pc is a RET.
RetAfterCall ==
    /\ last_call.op = "execute"
    /\ last_call.ok
    /\ get_op_handler_for_instruction(read_u16(m_cpu, last_call.address)) = "CALL"
    /\ HandlerAtPc(m_cpu) = "RET"

C14_Step ==
    Loaded =>
        /\ (HandlerAtPc(m_cpu) = "CALL" /\ m_cpu.sp < StackSize) =>
              /\ m_cpu'.stack[m_cpu.sp] = m_cpu.pc + 2
              /\ m_cpu'.pc = operand_data(InstrAtPc(m_cpu)).m_nnn
              /\ m_cpu'.sp = m_cpu.sp + 1
        /\ RetAfterCall =>
              /\ m_cpu'.pc = last_call.address + 2
              /\ m_cpu'.sp = m_cpu.sp - 1

\* C14: CALL addr at pc = p with sp < 16 pushes p + 2, sets pc = addr and adds
\* one to sp; a RET executed next puts pc at p + 2 and sp back where it was
\* before the CALL.
C14_CallRetRoundTrip == [][C14_Step]_vars

\* The CALL at the last aligned address that holds one went to the odd target
\* and the RET there has come back behind it: pc = 0xFFE, the stack empty again.
C14_Witness ==
    /\ last_call = [op |-> "execute", ok |-> TRUE, size |-> 0, address |-> 1281]
    /\ m_cpu.pc = 4094
    /\ m_cpu.sp = 0
    /\ m_cpu.stack[0] = 4094

C15_Step ==
    dasm' # dasm =>
        /\ m_cpu' = m_cpu
        /\ op_tree_added' = {}
        /\ m_cpu_state' = m_cpu_state
        /\ m_unhandled_messages' = m_unhandled_messages

====
